---------------------------- MODULE Spec2Model ----------------------------
(* Model of the admin dashboard page, src/src/pages/admin/AdminDashboard.tsx.

   The page keeps four pieces of React state (bookings, loading, globalFilter,
   statusFilter), runs loadBookings once on activation, and exposes the
   handlers handleApprove, handleReject, handleGenerateMeetLink and
   handleLogout.  Every handler is asynchronous: it issues one remote call,
   is suspended at the await, and its continuation (the code after the await,
   or the catch block) runs when the promise has settled.  The model has one
   action per synchronous segment of a handler:

     dispatch      the code up to the await (the remote call is issued),
     settle        the collaborator resolves or rejects the promise,
     continuation  the code after the await, or the catch block.

   The notification sink (toast) and the router (navigate) are observed
   through the number of notifications emitted of each kind, the one
   emitted last, and the number of navigations to the login surface.  A
   navigation to the login surface
   leaves the page: the component is unmounted at the end of the synchronous
   segment that called navigate, and a state setter called after that has
   no effect. *)
EXTENDS Integers, Sequences, FiniteSets, TLC

VARIABLES
    principal,     \* auth.currentUser / isAdmin(): "none", "user" or "admin"
    mounted,       \* the page is on screen (its React state is live)
    loading,       \* useState(true), line 12
    bookings,      \* useState<Booking[]>([]), line 11: the Booking Store
    globalFilter,  \* useState(''), line 13
    statusFilter,  \* useState('all'), line 14
    loadPc,        \* position of loadBookings
    fetched,       \* the settled result of fetchBookings()
    inflight,      \* remote calls issued by the handlers, not yet continued
    issued,        \* number of remote calls issued by the handlers
    cancelled,     \* number of rejection prompts dismissed (null result)
    toasts,        \* notifications emitted: how many of each kind, and the last
    navs,          \* number of navigate('/admin/login') calls
    lastPatch,     \* arguments of the last patch applied on its own (PatchSpec)
    remote,        \* what the remote holds for each booking: status and reason
    unhandled      \* handler promises rejected by a throw in their catch block

vars == <<principal, mounted, loading, bookings, globalFilter, statusFilter,
          loadPc, fetched, inflight, issued, cancelled, toasts, navs,
          lastPatch, remote, unhandled>>

-----------------------------------------------------------------------------
(* Bounds of the model. *)

MaxRecs == 2      \* records returned by the initial fetch
MaxCalls == 2     \* remote calls issued by the handlers in one page lifetime
MaxCancel == 1    \* rejection prompts dismissed in one page lifetime

-----------------------------------------------------------------------------
(* Values. *)

Absent == "<absent>"          \* an optional field that is not set (undefined)
Null == "<null>"              \* window.prompt dismissed
Sentinel == "Unauthorized access"
PermissionDenied == "permission-denied"

AllIds == <<"b1", "b2", "b3", "b4">>
Ids == {AllIds[k] : k \in 1..MaxRecs}
Status == {"pending", "approved", "rejected"}
StatusFilters == {"all"} \cup Status
QueryTexts == {"", "conf"}
PromptResults == {Null, "", "schedule conflict"}
NewLink == "https://meet/new"
OldLink == "https://meet/old"

Undefined == "<undefined>"    \* the value undefined, as a rejection value

(* The values a remote call can reject with.  The catch blocks take the
   rejection as `error: any`: it is an object, whose message and code are
   both optional, or it is undefined or null, of which no property can be
   read. *)
Messages == {Absent, "", Sentinel, "Network error"}
Codes == {Absent, PermissionDenied}
Errors == [value : {"object"}, message : Messages, code : Codes]
NonObjects == [value : {Undefined, Null}, message : {Absent}, code : {Absent}]
Rejections == Errors \cup NonObjects
NoError == [value |-> "object", message |-> Absent, code |-> Absent]

NoFetch == [ok |-> TRUE, data |-> <<>>, err |-> NoError]

(* A booking as the remote holds it: a rejected booking carries the reason
   it was rejected with, an approved one the meeting link generated for it. *)
Booking(i, s) ==
    [id |-> i, status |-> s,
     rejectionReason |-> IF s = "rejected" THEN "earlier reason" ELSE Absent,
     meetingLink |-> IF s = "approved" THEN OldLink ELSE Absent,
     payload |-> i]

(* What the remote holds for the bookings it returns. *)
RemoteOf(d) ==
    [i \in {d[k].id : k \in 1..Len(d)} |->
        LET b == d[CHOOSE k \in 1..Len(d) : d[k].id = i]
        IN  [status |-> b.status, rejectionReason |-> b.rejectionReason]]

(* updateBookingStatus(id, status, reason?) as the remote carries it out:
   the status is written, and the reason when one is given; the other calls
   leave the status alone. *)
RemoteApply(R, c) ==
    IF c.op = "approve" /\ c.id \in DOMAIN R
    THEN [R EXCEPT ![c.id].status = "approved"]
    ELSE IF c.op = "reject" /\ c.id \in DOMAIN R
    THEN [R EXCEPT ![c.id].status = "rejected", ![c.id].rejectionReason = c.reason]
    ELSE R

(* The sequences fetchBookings() can return: one record per id. *)
FetchResults ==
    UNION { { [k \in 1..n |-> Booking(AllIds[k], st[k])] : st \in [1..n -> Status] } :
            n \in 0..MaxRecs }

-----------------------------------------------------------------------------
(* Pure helpers. *)

(* { id: b.id, ...f }: a new record that does not spread the old one. *)
MergeNoSpread(b, f) ==
    [k \in DOMAIN b \cup DOMAIN f |->
        IF k \in DOMAIN f THEN f[k] ELSE IF k = "id" THEN b[k] ELSE Absent]

(* { ...b, ...f }: the fields of f over those of b. *)
Merge(b, f) ==
    [k \in DOMAIN b \cup DOMAIN f |-> IF k \in DOMAIN f THEN f[k] ELSE b[k]]

(* A filter in place of the map: only the patched record is kept. *)
patchFiltering(S, i, f) ==
    LET T == SelectSeq(S, LAMBDA b : b.id = i)
    IN  [k \in 1..Len(T) |-> Merge(T[k], f)]

(* A map that spreads the record over the new fields: { ...f, ...b }. *)
patchSpreadReversed(S, i, f) ==
    [k \in 1..Len(S) |-> IF S[k].id = i THEN Merge(f, S[k]) ELSE S[k]]

(* prev.map((b) => b.id === bookingId ? { ...b, ...f } : b) *)
patch(S, i, f) ==
    [k \in 1..Len(S) |-> IF S[k].id = i THEN Merge(S[k], f) ELSE S[k]]

(* The message shown as it is, with no fallback. *)
ErrorTextNoFallback(e, fallback) == e.message

(* error.message || fallback: undefined and '' are both falsy. *)
ErrorText(e, fallback) ==
    IF e.message = Absent \/ e.message = "" THEN fallback ELSE e.message

(* A filter without the 'all' case. *)
visibleNoAll(S, q, sf) == SelectSeq(S, LAMBDA b : b.status = sf)

(* bookings.filter(b => statusFilter === 'all' || b.status === statusFilter) *)
visible(S, q, sf) == SelectSeq(S, LAMBDA b : sf = "all" \/ b.status = sf)

(* The notification sink: toast.success(m) and toast.error(m) are counted,
   and the notification emitted last is kept. *)
Toast(k, m) == [kind |-> k, msg |-> m]

NoToasts == [success |-> 0, error |-> 0, last |-> Toast("none", "")]

Emit(T, k, m) == [T EXCEPT ![k] = @ + 1, !.last = Toast(k, m)]

SuccessText(op) ==
    CASE op = "approve" -> "Booking approved successfully"
      [] op = "reject" -> "Booking rejected successfully"
      [] op = "genlink" -> "Meeting link generated successfully"

FallbackText(op) ==
    CASE op = "approve" -> "Failed to approve booking"
      [] op = "reject" -> "Failed to reject booking"
      [] op = "genlink" -> "Failed to generate meeting link"

(* An approve patch that also resets the meeting link. *)
PatchFieldsClearingLink(c) ==
    CASE c.op = "approve" -> [status |-> "approved", meetingLink |-> Absent]
      [] c.op = "reject" -> [status |-> "rejected", rejectionReason |-> c.reason]
      [] c.op = "genlink" -> [meetingLink |-> c.link]

(* A reject patch that leaves the reason out. *)
PatchFieldsNoReason(c) ==
    CASE c.op = "approve" -> [status |-> "approved"]
      [] c.op = "reject" -> [status |-> "rejected"]
      [] c.op = "genlink" -> [meetingLink |-> c.link]

(* The fields each handler patches on success. *)
PatchFields(c) ==
    CASE c.op = "approve" -> [status |-> "approved"]
      [] c.op = "reject" -> [status |-> "rejected", rejectionReason |-> c.reason]
      [] c.op = "genlink" -> [meetingLink |-> c.link]

(* A state setter called once the page was left.  The page never tests
   whether it is still mounted before it calls a setter; what the call then
   does is the rendering library's, which is not part of the source: as the
   design requires of a late resolution (its Cancellation rule), the call is
   ignored and does not throw, and the state torn down stays as it was. *)
setStateUnmounted(cur, v) == cur

(* setBookings(updater): applied to the state as it is when it runs. *)
setBookings(S) == IF mounted THEN S ELSE setStateUnmounted(bookings, S)

(* setLoading(v), line 41. *)
setLoading(v) == IF mounted THEN v ELSE setStateUnmounted(loading, v)

(* error.message, read unguarded in each of the four catch blocks that read
   it, throws a TypeError when the rejection value is undefined or null. *)
Throws(e) == e.value # "object"

(* A catch block that never navigates. *)
HandlerNeverRedirects(e) == FALSE

(* The catch blocks of the three handlers navigate on the sentinel message only. *)
HandlerRedirects(e) == e.message = Sentinel

(* The catch block of loadBookings also navigates on the error code. *)
LoadRedirects(e) == e.code = PermissionDenied \/ e.message = Sentinel

-----------------------------------------------------------------------------
(* Initial state: the component has been constructed, the effect has not run. *)

Init ==
    /\ principal \in {"none", "user", "admin"}
    /\ mounted = TRUE
    /\ loading = TRUE
    /\ bookings = <<>>
    /\ globalFilter = ""
    /\ statusFilter = "all"
    /\ loadPc = "start"
    /\ fetched = NoFetch
    /\ inflight = {}
    /\ issued = 0
    /\ cancelled = 0
    /\ toasts = NoToasts
    /\ navs = 0
    /\ lastPatch = [applied |-> FALSE]
    /\ remote = <<>>
    /\ unhandled = 0

-----------------------------------------------------------------------------
(* loadBookings, lines 17-46. *)

(* The session checks without the isAdmin() test. *)
LoadStartNoAdminCheck ==
    /\ loadPc = "start"
    /\ IF principal = "none"
       THEN /\ navs' = navs + 1
            /\ toasts' = toasts
            /\ loading' = FALSE
            /\ mounted' = FALSE
            /\ loadPc' = "noPrincipal"
       ELSE /\ loadPc' = "fetching"
            /\ UNCHANGED <<toasts, navs, loading, mounted>>
    /\ UNCHANGED <<principal, bookings, globalFilter, statusFilter, fetched,
                   inflight, issued, cancelled, lastPatch, remote, unhandled>>

(* Lines 19-32: the session checks, up to the await of fetchBookings(). *)
LoadStart ==
    /\ loadPc = "start"
    /\ IF principal = "none"
       THEN /\ navs' = navs + 1
            /\ toasts' = toasts
            /\ loading' = FALSE
            /\ mounted' = FALSE
            /\ loadPc' = "noPrincipal"
       ELSE IF principal # "admin"
       THEN /\ toasts' = Emit(toasts, "error", Sentinel)
            /\ navs' = navs + 1
            /\ loading' = FALSE
            /\ mounted' = FALSE
            /\ loadPc' = "notAdmin"
       ELSE /\ loadPc' = "fetching"
            /\ UNCHANGED <<toasts, navs, loading, mounted>>
    /\ UNCHANGED <<principal, bookings, globalFilter, statusFilter, fetched,
                   inflight, issued, cancelled, lastPatch, remote, unhandled>>

(* fetchBookings() resolves with a sequence of bookings. *)
FetchResolve ==
    /\ loadPc = "fetching"
    /\ \E d \in FetchResults :
          /\ fetched' = [ok |-> TRUE, data |-> d, err |-> NoError]
          /\ remote' = RemoteOf(d)
    /\ loadPc' = "settled"
    /\ UNCHANGED <<principal, mounted, loading, bookings, globalFilter,
                   statusFilter, inflight, issued, cancelled, toasts, navs,
                   lastPatch, unhandled>>

(* fetchBookings() rejects. *)
FetchReject ==
    /\ loadPc = "fetching"
    /\ \E e \in Rejections :
          fetched' = [ok |-> FALSE, data |-> <<>>, err |-> e]
    /\ loadPc' = "settled"
    /\ UNCHANGED <<principal, mounted, loading, bookings, globalFilter,
                   statusFilter, inflight, issued, cancelled, toasts, navs,
                   lastPatch, remote, unhandled>>

(* loadBookings with setLoading(false) after setBookings only, not in a
   finally block. *)
LoadContinueNoFinally ==
    /\ loadPc = "settled"
    /\ IF fetched.ok
       THEN /\ bookings' = setBookings(fetched.data)
            /\ loading' = setLoading(FALSE)
            /\ loadPc' = "loaded"
            /\ UNCHANGED <<toasts, navs, mounted, unhandled>>
       ELSE IF Throws(fetched.err)
       THEN /\ unhandled' = unhandled + 1
            /\ loadPc' = "threw"
            /\ UNCHANGED <<bookings, loading, toasts, navs, mounted>>
       ELSE /\ toasts' = Emit(toasts, "error", ErrorText(fetched.err, "Failed to fetch bookings"))
            /\ IF LoadRedirects(fetched.err)
               THEN navs' = navs + 1 /\ mounted' = FALSE
               ELSE UNCHANGED <<navs, mounted>>
            /\ loadPc' = "failed"
            /\ UNCHANGED <<bookings, loading, unhandled>>
    /\ fetched' = NoFetch
    /\ UNCHANGED <<principal, globalFilter, statusFilter, inflight, issued,
                   cancelled, lastPatch, remote>>

(* Lines 33-42: setBookings(data), or the catch block; then finally.  When
   the rejection value is undefined or null the catch block throws at line 36,
   before the notification: the finally block still runs, and the promise of
   loadBookings, which nothing awaits (line 45), rejects unhandled. *)
LoadContinue ==
    /\ loadPc = "settled"
    /\ IF fetched.ok
       THEN /\ bookings' = setBookings(fetched.data)
            /\ loadPc' = "loaded"
            /\ UNCHANGED <<toasts, navs, mounted, unhandled>>
       ELSE IF Throws(fetched.err)
       THEN /\ unhandled' = unhandled + 1
            /\ loadPc' = "threw"
            /\ UNCHANGED <<bookings, toasts, navs, mounted>>
       ELSE /\ toasts' = Emit(toasts, "error", ErrorText(fetched.err, "Failed to fetch bookings"))
            /\ IF LoadRedirects(fetched.err)
               THEN navs' = navs + 1 /\ mounted' = FALSE
               ELSE UNCHANGED <<navs, mounted>>
            /\ loadPc' = "failed"
            /\ UNCHANGED <<bookings, unhandled>>
    /\ loading' = setLoading(FALSE)
    /\ fetched' = NoFetch
    /\ UNCHANGED <<principal, globalFilter, statusFilter, inflight, issued,
                   cancelled, lastPatch, remote>>

-----------------------------------------------------------------------------
(* What the rendered page lets the user do. *)

(* A page rendered without the test of loading. *)
RenderedWhileLoading == mounted

(* Lines 114-181: rows, the filters and the logout button are rendered only
   once loading is false; the rows are those passing the status filter. *)
Rendered == mounted /\ ~loading

RowIds ==
    LET rows == visible(bookings, globalFilter, statusFilter)
    IN  {rows[k].id : k \in 1..Len(rows)}

Call(op, i, r) ==
    [cid |-> issued + 1, op |-> op, id |-> i, reason |-> r,
     state |-> "pending", err |-> NoError, link |-> Absent]

(* A call that is refused while the same action on the same booking is in
   flight. *)
IssueOncePerId(c) ==
    /\ issued < MaxCalls
    /\ \A d \in inflight : ~(d.op = c.op /\ d.id = c.id)
    /\ inflight' = inflight \cup {c}
    /\ issued' = issued + 1

Issue(c) ==
    /\ issued < MaxCalls
    /\ inflight' = inflight \cup {c}
    /\ issued' = issued + 1

(* Lines 57-59: handleApprove up to the await. *)
handleApprove(i) ==
    /\ Issue(Call("approve", i, Absent))
    /\ UNCHANGED <<principal, mounted, loading, bookings, globalFilter,
                   statusFilter, loadPc, fetched, cancelled, toasts, navs,
                   lastPatch, remote, unhandled>>

(* handleReject without the return on a dismissed prompt. *)
handleRejectNoReturn(i, r) ==
    /\ Issue(Call("reject", i, r))
    /\ IF r = Null
       THEN cancelled < MaxCancel /\ cancelled' = cancelled + 1
       ELSE UNCHANGED cancelled
    /\ UNCHANGED <<principal, mounted, loading, bookings, globalFilter,
                   statusFilter, loadPc, fetched, toasts, navs, lastPatch, remote,
                   unhandled>>

(* Lines 75-80: handleReject up to the await; r is what window.prompt returned. *)
handleReject(i, r) ==
    /\ IF r = Null
       THEN /\ cancelled < MaxCancel
            /\ cancelled' = cancelled + 1
            /\ UNCHANGED <<inflight, issued>>
       ELSE /\ Issue(Call("reject", i, r))
            /\ UNCHANGED cancelled
    /\ UNCHANGED <<principal, mounted, loading, bookings, globalFilter,
                   statusFilter, loadPc, fetched, toasts, navs, lastPatch, remote,
                   unhandled>>

(* Lines 96-98: handleGenerateMeetLink up to the await. *)
handleGenerateMeetLink(i) ==
    /\ Issue(Call("genlink", i, Absent))
    /\ UNCHANGED <<principal, mounted, loading, bookings, globalFilter,
                   statusFilter, loadPc, fetched, cancelled, toasts, navs,
                   lastPatch, remote, unhandled>>

(* Lines 48-50: handleLogout up to the await of auth.signOut(). *)
handleLogout ==
    /\ Issue(Call("signOut", Absent, Absent))
    /\ UNCHANGED <<principal, mounted, loading, bookings, globalFilter,
                   statusFilter, loadPc, fetched, cancelled, toasts, navs,
                   lastPatch, remote, unhandled>>

Approve == Rendered /\ \E i \in RowIds : handleApprove(i)

Reject == Rendered /\ \E i \in RowIds : \E r \in PromptResults : handleReject(i, r)

GenerateMeetLink == Rendered /\ \E i \in RowIds : handleGenerateMeetLink(i)

Logout == Rendered /\ handleLogout

(* Line 159: the status select. *)
SetStatusFilter ==
    /\ Rendered
    /\ \E sf \in StatusFilters : statusFilter' = sf /\ sf # statusFilter
    /\ UNCHANGED <<principal, mounted, loading, bookings, globalFilter, loadPc,
                   fetched, inflight, issued, cancelled, toasts, navs,
                   lastPatch, remote, unhandled>>

(* Lines 147 and 177: the search box. *)
SetGlobalFilter ==
    /\ Rendered
    /\ \E q \in QueryTexts : globalFilter' = q /\ q # globalFilter
    /\ UNCHANGED <<principal, mounted, loading, bookings, statusFilter, loadPc,
                   fetched, inflight, issued, cancelled, toasts, navs,
                   lastPatch, remote, unhandled>>

-----------------------------------------------------------------------------
(* The collaborators settle the promises. *)

Settled(c, ok, e, l) == [c EXCEPT !.state = IF ok THEN "ok" ELSE "err",
                                  !.err = e, !.link = l]

(* The collaborator carries the call out and its promise resolves; the
   continuation of the handler runs later, when the response is delivered. *)
RemoteResolve ==
    /\ \E c \in inflight :
          /\ c.state = "pending"
          /\ inflight' = (inflight \ {c}) \cup
                {Settled(c, TRUE, NoError, IF c.op = "genlink" THEN NewLink ELSE Absent)}
          /\ remote' = RemoteApply(remote, c)
    /\ UNCHANGED <<principal, mounted, loading, bookings, globalFilter,
                   statusFilter, loadPc, fetched, issued, cancelled, toasts,
                   navs, lastPatch, unhandled>>

(* The promise of the call rejects.  The catch block of handleLogout reads
   nothing of the rejection value (lines 52-54). *)
RemoteReject ==
    /\ \E c \in inflight : \E e \in Rejections :
          /\ c.state = "pending"
          /\ c.op = "signOut" => e = NoError
          /\ inflight' = (inflight \ {c}) \cup {Settled(c, FALSE, e, Absent)}
    /\ UNCHANGED <<principal, mounted, loading, bookings, globalFilter,
                   statusFilter, loadPc, fetched, issued, cancelled, toasts,
                   navs, lastPatch, remote, unhandled>>

-----------------------------------------------------------------------------
(* The continuations of the handlers. *)

(* A success branch whose map has no test of the id. *)
OnSuccessPatchingAll(c) ==
    /\ bookings' = setBookings([k \in 1..Len(bookings) |->
                                   Merge(bookings[k], PatchFields(c))])
    /\ toasts' = Emit(toasts, "success", SuccessText(c.op))
    /\ UNCHANGED <<navs, mounted, unhandled>>

(* A success branch without the setBookings call. *)
OnSuccessNoPatch(c) ==
    /\ toasts' = Emit(toasts, "success", SuccessText(c.op))
    /\ UNCHANGED <<bookings, navs, mounted, unhandled>>

(* Lines 60-65, 81-86, 99-104: the patch and the success notification. *)
OnSuccess(c) ==
    /\ bookings' = setBookings(patch(bookings, c.id, PatchFields(c)))
    /\ toasts' = Emit(toasts, "success", SuccessText(c.op))
    /\ UNCHANGED <<navs, mounted, unhandled>>

(* Lines 66-72, 87-93, 105-111: the catch block.  When the rejection value
   is undefined or null it throws at its second line (68, 89, 107), before
   the notification, and the promise of the handler rejects. *)
OnFailure(c) ==
    /\ IF Throws(c.err)
       THEN /\ unhandled' = unhandled + 1
            /\ UNCHANGED <<toasts, navs, mounted>>
       ELSE /\ toasts' = Emit(toasts, "error", ErrorText(c.err, FallbackText(c.op)))
            /\ IF HandlerRedirects(c.err)
               THEN navs' = navs + 1 /\ mounted' = FALSE
               ELSE UNCHANGED <<navs, mounted>>
            /\ UNCHANGED unhandled
    /\ UNCHANGED bookings

(* Continuations that are dropped once the page was left, as they would be
   if a cleanup aborted the calls in flight. *)
ActionContinueUnlessLeft ==
    /\ mounted
    /\ \E c \in inflight :
          /\ c.op \in {"approve", "reject", "genlink"}
          /\ c.state # "pending"
          /\ inflight' = inflight \ {c}
          /\ IF c.state = "ok" THEN OnSuccess(c) ELSE OnFailure(c)
    /\ UNCHANGED <<principal, loading, globalFilter, statusFilter, loadPc,
                   fetched, issued, cancelled, lastPatch, remote>>

(* Lines 57-112: the continuation of a settled call runs, whether the page
   is still there or not: no handler tests it and nothing aborts a call. *)
ActionContinue ==
    /\ \E c \in inflight :
          /\ c.op \in {"approve", "reject", "genlink"}
          /\ c.state # "pending"
          /\ inflight' = inflight \ {c}
          /\ IF c.state = "ok" THEN OnSuccess(c) ELSE OnFailure(c)
    /\ UNCHANGED <<principal, loading, globalFilter, statusFilter, loadPc,
                   fetched, issued, cancelled, lastPatch, remote>>

(* Lines 51-54: handleLogout after the await. *)
LogoutContinue ==
    /\ \E c \in inflight :
          /\ c.op = "signOut"
          /\ c.state # "pending"
          /\ inflight' = inflight \ {c}
          /\ IF c.state = "ok"
             THEN navs' = navs + 1 /\ mounted' = FALSE /\ UNCHANGED toasts
             ELSE /\ toasts' = Emit(toasts, "error", "Failed to logout")
                  /\ UNCHANGED <<navs, mounted>>
    /\ UNCHANGED <<principal, loading, bookings, globalFilter, statusFilter,
                   loadPc, fetched, issued, cancelled, lastPatch, remote,
                   unhandled>>

-----------------------------------------------------------------------------

Next ==
    \/ LoadStart
    \/ FetchResolve
    \/ FetchReject
    \/ LoadContinue
    \/ Approve
    \/ Reject
    \/ GenerateMeetLink
    \/ Logout
    \/ RemoteResolve
    \/ RemoteReject
    \/ ActionContinue
    \/ LogoutContinue

(* The page with the status filter left at 'all' and the search box empty.
   The filters only decide which rows are on screen, so every row can
   dispatch: the bookings, notifications and navigations of any run of the
   page with its filters are those of a run of Spec. *)
Spec == Init /\ [][Next]_vars

(* The page as scheduled: the effect runs once the component is mounted, the
   fetch settles, and the continuation of a settled fetch runs. *)
LiveSpec ==
    /\ Init /\ [][Next]_vars
    /\ WF_vars(LoadStart)
    /\ WF_vars(FetchResolve \/ FetchReject)
    /\ WF_vars(LoadContinue)

(* The page with its two filters, whose remote calls all succeed. *)
NextView ==
    \/ LoadStart
    \/ FetchResolve
    \/ LoadContinue
    \/ Approve
    \/ Reject
    \/ GenerateMeetLink
    \/ SetStatusFilter
    \/ SetGlobalFilter
    \/ RemoteResolve
    \/ ActionContinue

ViewSpec == Init /\ [][NextView]_vars

(* The user navigates away from the page (another route, the back button)
   once its effect has run: the router unmounts the component.  The effect
   returns no cleanup (lines 17-46), so nothing else happens at that moment. *)
Leave ==
    /\ mounted
    /\ loadPc # "start"
    /\ mounted' = FALSE
    /\ UNCHANGED <<principal, loading, bookings, globalFilter, statusFilter,
                   loadPc, fetched, inflight, issued, cancelled, toasts, navs,
                   lastPatch, remote, unhandled>>

NextLeave == Next \/ Leave

(* The page that its user may leave at any moment, the initial fetch or the
   call of a handler still in flight. *)
LeaveSpec == Init /\ [][NextLeave]_vars

-----------------------------------------------------------------------------
(* patch on its own: any store, any id, any of the field sets. *)

NoId == "b0"

FieldSets ==
    [status : Status]
    \cup [status : {"rejected"}, rejectionReason : PromptResults \ {Null}]
    \cup [meetingLink : {NewLink}]

PatchInit ==
    /\ principal = "admin"
    /\ mounted = TRUE
    /\ loading = FALSE
    /\ bookings \in FetchResults
    /\ globalFilter = ""
    /\ statusFilter = "all"
    /\ loadPc = "loaded"
    /\ fetched = NoFetch
    /\ inflight = {}
    /\ issued = 0
    /\ cancelled = 0
    /\ toasts = NoToasts
    /\ navs = 0
    /\ lastPatch = [applied |-> FALSE]
    /\ remote = <<>>
    /\ unhandled = 0

PatchApply ==
    /\ \E i \in Ids \cup {NoId} : \E f \in FieldSets :
          /\ bookings' = patch(bookings, i, f)
          /\ lastPatch' = [applied |-> TRUE, S |-> bookings, i |-> i, f |-> f]
    /\ UNCHANGED <<principal, mounted, loading, globalFilter, statusFilter,
                   loadPc, fetched, inflight, issued, cancelled, toasts, navs,
                   remote, unhandled>>

PatchSpec == PatchInit /\ [][PatchApply]_vars

-----------------------------------------------------------------------------
(* Vocabulary of the properties. *)

Mutations == {"approve", "reject", "genlink"}

(* The continuation of call c runs in this step: c had settled and leaves. *)
Continues(c) == c \in inflight /\ c.state # "pending" /\ c \notin inflight'

Succeeds(c) == Continues(c) /\ c.state = "ok"

Fails(c) == Continues(c) /\ c.state = "err"

(* The catch block of loadBookings runs in this step. *)
FetchFails == loadPc = "settled" /\ ~fetched.ok /\ loadPc' # "settled"

(* Unauthorized as the design defines it: the sentinel message or the
   permission-denied error kind. *)
IsUnauthorized(e) == e.message = Sentinel \/ e.code = PermissionDenied

MessageAbsent(e) == e.message \in {Absent, ""}

IdsOf(S) == {S[k].id : k \in 1..Len(S)}

-----------------------------------------------------------------------------
(* C1: the store changes only when loadBookings stores the fetched data or
   when the continuation of a mutation whose own remote call succeeded runs;
   and when a mutation's call fails with a rejection that is not
   Unauthorized, the store is unchanged and there is no navigation to login;
   when the rejection is an error, as the contract of the booking service has
   it, exactly one error notification is emitted, with the error's message
   or, when the message is absent (undefined or empty), the action's fallback
   text, and nothing is thrown. *)
C1_PatchOnlyAfterSuccess ==
    [][ /\ bookings' # bookings =>
              \/ loadPc = "settled" /\ fetched.ok /\ loadPc' = "loaded"
              \/ \E c \in inflight : c.op \in Mutations /\ Succeeds(c)
        /\ \A c \in inflight :
              (c.op \in Mutations /\ Fails(c) /\ ~IsUnauthorized(c.err)) =>
                 /\ bookings' = bookings
                 /\ toasts'.success = toasts.success
                 /\ navs' = navs /\ mounted' = mounted
                 /\ c.err \in Errors =>
                       /\ toasts'.error = toasts.error + 1
                       /\ toasts'.last =
                             Toast("error", IF MessageAbsent(c.err)
                                            THEN FallbackText(c.op)
                                            ELSE c.err.message)
                       /\ unhandled' = unhandled
      ]_vars

(* A generate-link call has failed with no message on a loaded page: the
   fallback was shown, the page is still there. *)
C1_Witness ==
    /\ loadPc = "loaded" /\ Len(bookings) = 2
    /\ toasts.error = 1 /\ toasts.success = 0
    /\ toasts.last = Toast("error", "Failed to generate meeting link")
    /\ navs = 0 /\ mounted /\ issued = 1 /\ inflight = {} /\ unhandled = 0

(* C2: when the remote call of Approve, Reject or GenerateMeetingLink fails
   with the message "Unauthorized access", an error notification with that
   message is emitted, navigation to login is triggered, and the store is
   unchanged. *)
C2_SentinelRedirects ==
    [][ \A c \in inflight :
           (c.op \in Mutations /\ Fails(c) /\ c.err.message = Sentinel) =>
              /\ toasts'.error = toasts.error + 1
              /\ toasts'.success = toasts.success
              /\ toasts'.last = Toast("error", Sentinel)
              /\ navs' = navs + 1
              /\ bookings' = bookings
      ]_vars

(* A reject call on a loaded page has failed with the sentinel message. *)
C2_Witness ==
    /\ loadPc = "loaded" /\ bookings # <<>>
    /\ toasts.error = 1 /\ toasts.last = Toast("error", Sentinel)
    /\ navs = 1 /\ ~mounted /\ issued = 1 /\ inflight = {}

(* C3: every failure of the initial fetch, Approve, Reject or
   GenerateMeetingLink that carries the permission-denied error kind, or whose
   message is "Unauthorized access", triggers navigation to login and emits
   the error notification. *)
C3_UnauthorizedAlwaysRedirects ==
    [][ /\ (FetchFails /\ IsUnauthorized(fetched.err)) =>
              navs' = navs + 1 /\ toasts'.error = toasts.error + 1
        /\ \A c \in inflight :
              (c.op \in Mutations /\ Fails(c) /\ IsUnauthorized(c.err)) =>
                 navs' = navs + 1 /\ toasts'.error = toasts.error + 1
      ]_vars

(* C4: the fetch is attempted only for an administrator.  With no principal
   the page navigates to login with no notification and no fetch; with a
   principal that is not an administrator it emits exactly one "Unauthorized
   access" error notification and navigates to login with no fetch.  In both
   cases the store stays empty. *)
C4_LoadGate ==
    /\ [](loadPc \in {"fetching", "settled", "loaded", "failed", "threw"} =>
             principal = "admin")
    /\ [](principal # "admin" => bookings = <<>>)
    /\ [][ (loadPc = "start" /\ loadPc' # "start") =>
              /\ principal = "none" =>
                    /\ loadPc' = "noPrincipal"
                    /\ navs' = 1 /\ toasts' = NoToasts
              /\ principal = "user" =>
                    /\ loadPc' = "notAdmin"
                    /\ navs' = 1
                    /\ toasts' = [success |-> 0, error |-> 1,
                                  last |-> Toast("error", Sentinel)]
              /\ principal = "admin" => loadPc' = "fetching"
         ]_vars
    /\ [](loadPc \in {"noPrincipal", "notAdmin"} =>
             /\ navs = 1 /\ bookings = <<>>
             /\ toasts.error = (IF loadPc = "notAdmin" THEN 1 ELSE 0)
             /\ toasts.success = 0)

(* The page was activated by a principal that is not an administrator. *)
C4_Witness ==
    /\ principal = "user" /\ loadPc = "notAdmin"
    /\ navs = 1 /\ toasts.error = 1 /\ bookings = <<>>

(* C5: the status of a record of the store only changes from pending: to
   approved or to rejected. *)
C5_StatusOnlyLeavesPending ==
    [][ Len(bookings') = Len(bookings) =>
           \A k \in 1..Len(bookings) :
              bookings'[k].status # bookings[k].status =>
                 /\ bookings[k].status = "pending"
                 /\ bookings'[k].status \in {"approved", "rejected"}
      ]_vars

(* C6: in every state of the store a record has a rejectionReason exactly
   when its status, the target of the last transition applied to it, is
   rejected. *)
C6_ReasonIffRejected ==
    \A k \in 1..Len(bookings) :
       (bookings[k].rejectionReason # Absent) <=> (bookings[k].status = "rejected")

(* C7: a Reject whose prompt is dismissed issues no remote call, emits no
   notification, triggers no navigation and leaves the store unchanged. *)
C7_CancelledRejectDoesNothing ==
    [][ cancelled' # cancelled =>
           /\ cancelled' = cancelled + 1
           /\ UNCHANGED <<bookings, inflight, issued, toasts, navs, mounted,
                          loading>>
      ]_vars

(* A prompt was dismissed on a loaded page where nothing else was done. *)
C7_Witness ==
    /\ cancelled = 1 /\ loadPc = "loaded" /\ bookings # <<>>
    /\ issued = 0 /\ inflight = {} /\ toasts = NoToasts /\ navs = 0

(* C8: a Reject with a prompt result that is not null, the empty string
   included, calls the remote with that reason; when the call succeeds on the
   mounted page, the record with that id gets status rejected and that
   reason, every other record is unchanged, and one success notification is
   emitted. *)
C8_RejectPatches ==
    [][ /\ \A c \in inflight' \ inflight :
              (c.op = "reject" /\ c.state = "pending") =>
                 /\ c.reason \in PromptResults \ {Null}
                 /\ issued' = issued + 1
        /\ \A c \in inflight :
              (c.op = "reject" /\ Succeeds(c)) =>
                 /\ mounted =>
                       /\ Len(bookings') = Len(bookings)
                       /\ \A k \in 1..Len(bookings) :
                             bookings'[k] =
                                IF bookings[k].id = c.id
                                THEN [bookings[k] EXCEPT
                                         !.status = "rejected",
                                         !.rejectionReason = c.reason]
                                ELSE bookings[k]
                 /\ toasts'.success = toasts.success + 1
                 /\ toasts'.error = toasts.error
                 /\ toasts'.last = Toast("success", "Booking rejected successfully")
      ]_vars

(* The second of two pending bookings was rejected with the empty reason. *)
C8_Witness ==
    /\ Len(bookings) = 2
    /\ bookings[1].status = "pending" /\ bookings[1].rejectionReason = Absent
    /\ bookings[2].status = "rejected" /\ bookings[2].rejectionReason = ""
    /\ toasts.last = Toast("success", "Booking rejected successfully")
    /\ toasts.success = 1 /\ toasts.error = 0

(* C9: when the remote call of an Approve succeeds, the record with that id
   has status approved in the store of the mounted page, exactly one success
   notification and no error notification is emitted, and there is no
   navigation to login. *)
C9_ApprovePatches ==
    [][ \A c \in inflight :
           (c.op = "approve" /\ Succeeds(c)) =>
              /\ mounted =>
                    \A k \in 1..Len(bookings') :
                       bookings'[k].id = c.id => bookings'[k].status = "approved"
              /\ IdsOf(bookings') = IdsOf(bookings)
              /\ toasts'.success = toasts.success + 1
              /\ toasts'.error = toasts.error
              /\ toasts'.last = Toast("success", "Booking approved successfully")
              /\ navs' = navs /\ mounted' = mounted
      ]_vars

(* A pending booking was approved: one success notification, no redirect. *)
C9_Witness ==
    /\ Len(bookings) = 1 /\ bookings[1].status = "approved"
    /\ bookings[1].meetingLink = Absent
    /\ toasts = [success |-> 1, error |-> 0,
                 last |-> Toast("success", "Booking approved successfully")]
    /\ navs = 0 /\ mounted

(* C10: patch(S, i, f) has the length and the order of S; every record with
   another id is unchanged; the record with id i has the fields of f with the
   values of f and every other field with its prior value; when no record
   has id i the result is S. *)
C10_PatchFrame ==
    lastPatch.applied =>
       LET S == lastPatch.S
           i == lastPatch.i
           f == lastPatch.f
       IN  /\ Len(bookings) = Len(S)
           /\ \A k \in 1..Len(S) :
                 /\ bookings[k].id = S[k].id
                 /\ S[k].id # i => bookings[k] = S[k]
                 /\ S[k].id = i =>
                       /\ DOMAIN bookings[k] = DOMAIN S[k] \cup DOMAIN f
                       /\ \A fld \in DOMAIN f : bookings[k][fld] = f[fld]
                       /\ \A fld \in DOMAIN S[k] \ DOMAIN f :
                             bookings[k][fld] = S[k][fld]
           /\ i \notin IdsOf(S) => bookings = S

(* A reject patch was applied to the first of two records and changed it. *)
C10_Witness ==
    /\ lastPatch.applied
    /\ Len(lastPatch.S) = 2
    /\ lastPatch.i = lastPatch.S[1].id
    /\ DOMAIN lastPatch.f = {"status", "rejectionReason"}
    /\ bookings[1] # lastPatch.S[1]
    /\ bookings[1].meetingLink = OldLink

-----------------------------------------------------------------------------
(* C11: a record whose meetingLink is set keeps a meetingLink through every
   step of the page: Approve, Reject, GenerateMeetingLink, their
   continuations, and the changes of the two filters. *)
C11_MeetingLinkNeverCleared ==
    [][ /\ Len(bookings') >= Len(bookings)
        /\ \A k \in 1..Len(bookings) :
              bookings[k].meetingLink # Absent =>
                 /\ bookings'[k].id = bookings[k].id
                 /\ bookings'[k].meetingLink # Absent
      ]_vars

(* A booking fetched with a link has since been rejected, with the status
   filter changed, and still has its link. *)
C11_Witness ==
    /\ Len(bookings) = 1
    /\ bookings[1].status = "rejected"
    /\ bookings[1].rejectionReason = "schedule conflict"
    /\ bookings[1].meetingLink = OldLink
    /\ statusFilter = "rejected"

(* C12: the store holds one record per id, and once the fetched sequence is
   stored no step adds, removes, duplicates or reorders records: the store
   takes the fetched sequence and its sequence of ids stays as it is. *)
C12_OneRecordPerId ==
    /\ [](\A j, k \in 1..Len(bookings) : bookings[j].id = bookings[k].id => j = k)
    /\ [][ /\ (loadPc = "settled" /\ loadPc' = "loaded") => bookings' = fetched.data
           /\ loadPc = "loaded" =>
                 /\ Len(bookings') = Len(bookings)
                 /\ \A k \in 1..Len(bookings) : bookings'[k].id = bookings[k].id
         ]_vars

(* Two bookings were fetched and both have been patched: they are still the
   two fetched, in the order fetched. *)
C12_Witness ==
    /\ loadPc = "loaded" /\ Len(bookings) = 2
    /\ bookings[1].id = "b1" /\ bookings[2].id = "b2"
    /\ bookings[1].status = "approved" /\ bookings[1].meetingLink = Absent
    /\ bookings[2].meetingLink = NewLink /\ bookings[2].status = "pending"
    /\ toasts.success = 2

(* The k-th record of S, in order, whose status is s. *)
NthWithStatus(S, s, j) ==
    CHOOSE k \in 1..Len(S) :
       /\ S[k].status = s
       /\ Cardinality({m \in 1..k : S[m].status = s}) = j

(* C13: the list handed to the table is the whole store, in order, for the
   status predicate "all", and for any other predicate s the records with
   status s, in the order of the store, whatever the query text is; a change
   of the query text or of the status predicate leaves the store as it is. *)
C13_VisibleList ==
    /\ [](\A q \in QueryTexts :
            LET v == visible(bookings, q, statusFilter)
                n == Cardinality({k \in 1..Len(bookings) :
                                     bookings[k].status = statusFilter})
            IN  IF statusFilter = "all"
                THEN v = bookings
                ELSE /\ Len(v) = n
                     /\ \A j \in 1..n :
                           v[j] = bookings[NthWithStatus(bookings, statusFilter, j)])
    /\ [][ (globalFilter' # globalFilter \/ statusFilter' # statusFilter) =>
              bookings' = bookings ]_vars

(* With a query typed and the filter on approved, the second of two bookings
   is the one listed. *)
C13_Witness ==
    /\ Len(bookings) = 2
    /\ bookings[1].status = "rejected" /\ bookings[2].status = "approved"
    /\ statusFilter = "approved" /\ globalFilter = "conf"
    /\ visible(bookings, globalFilter, statusFilter) = <<bookings[2]>>

(* C14, as claimed: from the dispatch of an action to its resolution no other
   action's patch is applied: while the remote call of a mutation is pending,
   the store does not change. *)
C14_NoPatchWhileInFlight ==
    [][ (\E c \in inflight :
            c.op \in Mutations /\ c.state = "pending" /\ c \in inflight')
        => bookings' = bookings ]_vars

(* C14, amended: operations are not serialized across the await, but each
   patch is applied whole, in one step, by the continuation of its own call:
   a change of the loaded store is the continuation of exactly one mutation
   whose call succeeded, and it changes only the records with that call's
   id. *)
C14_OnePatchPerStep ==
    [][ (loadPc = "loaded" /\ bookings' # bookings) =>
           \E c \in inflight :
              /\ c.op \in Mutations /\ Succeeds(c)
              /\ inflight' = inflight \ {c}
              /\ Len(bookings') = Len(bookings)
              /\ \A k \in 1..Len(bookings) :
                    bookings'[k] # bookings[k] => bookings[k].id = c.id
      ]_vars

(* The approve of the first booking, dispatched first, is still pending, and
   the link generated for the second has been patched in. *)
C14_Witness ==
    /\ Len(bookings) = 2
    /\ \E c \in inflight :
          c.cid = 1 /\ c.op = "approve" /\ c.id = "b1" /\ c.state = "pending"
    /\ bookings[1].status = "pending"
    /\ bookings[2].meetingLink = NewLink
    /\ toasts.success = 1 /\ issued = 2

(* The handler a call was dispatched by, invoked again with the same
   arguments. *)
Redispatch(c) ==
    CASE c.op = "approve" -> handleApprove(c.id)
      [] c.op = "reject" -> handleReject(c.id, c.reason)
      [] c.op = "genlink" -> handleGenerateMeetLink(c.id)

(* C15: while the call of an action on a booking is in flight, the same
   action on the same booking can be dispatched again (as long as the page
   shows the row and the model's bound on calls is not reached); and when one
   of two such calls succeeds it emits its own success notification and
   leaves the other in flight. *)
C15_DuplicateDispatch ==
    /\ [](\A c \in inflight :
            (c.op \in Mutations /\ Rendered /\ c.id \in RowIds /\ issued < MaxCalls)
               => ENABLED Redispatch(c))
    /\ [][ \A c, d \in inflight :
              (c # d /\ c.op \in Mutations /\ d.op = c.op /\ d.id = c.id
                 /\ Succeeds(c)) =>
                 /\ toasts'.success = toasts.success + 1
                 /\ toasts'.last = Toast("success", SuccessText(c.op))
                 /\ d \in inflight'
         ]_vars

(* Two approve calls for the same booking are in flight together. *)
C15_Witness ==
    \E c, d \in inflight :
       /\ c.cid = 1 /\ d.cid = 2
       /\ c.op = "approve" /\ d.op = "approve"
       /\ c.id = "b1" /\ d.id = "b1"
       /\ c.state = "pending" /\ d.state = "pending"

(* C16: leaving the page, by its own navigate or by the user navigating
   away, cancels nothing: the initial fetch and the calls of the handlers
   stay in flight, they can still settle, and a settled one still gets its
   continuation.  A continuation that runs after the page was left changes
   neither the store nor the loading flag; that of a successful call raises
   nothing: no error notification, nothing thrown, and a mutation ends with
   its success notification. *)
C16_LateResolutionIsNoOp ==
    /\ [](\A c \in inflight :
            /\ c.state = "pending" => ENABLED (RemoteResolve \/ RemoteReject)
            /\ c.state # "pending" => ENABLED (ActionContinue \/ LogoutContinue))
    /\ [](loadPc = "fetching" => ENABLED (FetchResolve \/ FetchReject))
    /\ [](loadPc = "settled" => ENABLED LoadContinue)
    /\ [][ /\ (mounted /\ ~mounted') =>
                 /\ \A c \in inflight : ~Continues(c) => c \in inflight'
                 /\ loadPc = "fetching" => loadPc' = "fetching"
           /\ \A c \in inflight :
                 (~mounted /\ Continues(c)) =>
                    /\ bookings' = bookings /\ loading' = loading
                    /\ c.state = "ok" =>
                          /\ toasts'.error = toasts.error
                          /\ unhandled' = unhandled
                          /\ c.op \in Mutations =>
                                /\ toasts'.success = toasts.success + 1
                                /\ toasts'.last = Toast("success", SuccessText(c.op))
           /\ (~mounted /\ loadPc = "settled" /\ loadPc' # "settled") =>
                 /\ bookings' = bookings /\ loading' = loading
                 /\ fetched.ok =>
                       /\ loadPc' = "loaded"
                       /\ toasts' = toasts /\ unhandled' = unhandled
         ]_vars

(* The user left the page while an approve was in flight; the approve has
   since succeeded at the remote and its continuation has run: its
   notification was emitted, the booking of the store that was torn down is
   as it was. *)
C16_Witness ==
    /\ ~mounted /\ navs = 0 /\ issued = 1 /\ inflight = {} /\ unhandled = 0
    /\ toasts = [success |-> 1, error |-> 0,
                 last |-> Toast("success", "Booking approved successfully")]
    /\ Len(bookings) = 1 /\ bookings[1].status = "pending"
    /\ remote["b1"].status = "approved"

(* The user left the page during the initial fetch; the fetch has since
   resolved with a booking and loadBookings has run to its end: the store
   torn down is still empty and its loading flag still set. *)
C16_LateLoad ==
    /\ ~mounted /\ loadPc = "loaded" /\ navs = 0
    /\ DOMAIN remote = {"b1"}
    /\ bookings = <<>> /\ loading /\ toasts = NoToasts /\ unhandled = 0

(* C17: a patch is applied to the store as it is when the call resolves:
   when the continuation of a successful call runs on the mounted page, the
   fields it patches take the new values in the records with its id, and
   every other field of every record keeps the value it has at that moment,
   the values patched in by calls that resolved earlier included. *)
C17_NoLostUpdate ==
    [][ \A c \in inflight :
           (c.op \in Mutations /\ Succeeds(c) /\ mounted) =>
              /\ Len(bookings') = Len(bookings)
              /\ \A k \in 1..Len(bookings) :
                    LET b == bookings[k]
                        hit == b.id = c.id
                    IN  /\ bookings'[k].id = b.id
                        /\ bookings'[k].payload = b.payload
                        /\ bookings'[k].status =
                              IF hit /\ c.op = "approve" THEN "approved"
                              ELSE IF hit /\ c.op = "reject" THEN "rejected"
                              ELSE b.status
                        /\ bookings'[k].rejectionReason =
                              IF hit /\ c.op = "reject" THEN c.reason
                              ELSE b.rejectionReason
                        /\ bookings'[k].meetingLink =
                              IF hit /\ c.op = "genlink" THEN c.link
                              ELSE b.meetingLink
      ]_vars

(* An approve and a generate-link of the same booking were in flight
   together, the approve dispatched first; the link is patched in and the
   approve, resolved, has its continuation still to run. *)
C17_Witness ==
    /\ Len(bookings) = 1
    /\ bookings[1].status = "pending" /\ bookings[1].meetingLink = NewLink
    /\ \E c \in inflight :
          c.cid = 1 /\ c.op = "approve" /\ c.id = "b1" /\ c.state = "ok"
    /\ issued = 2 /\ toasts.success = 1 /\ mounted

(* C18: whenever the page is mounted, no call is in flight and no call has
   failed, every record of the store has the status and the rejectionReason
   the remote holds for its id. *)
C18_LocalRemoteAgreement ==
    (mounted /\ loadPc = "loaded" /\ inflight = {} /\ toasts.error = 0
       /\ unhandled = 0) =>
       \A k \in 1..Len(bookings) :
          /\ bookings[k].status = remote[bookings[k].id].status
          /\ bookings[k].rejectionReason = remote[bookings[k].id].rejectionReason

(* C19: the fetched sequence is stored at most once, into the empty store of
   a page on which no call was issued and no patch applied; loadBookings
   never leaves its final position; calls are issued only once loading is
   false, and the call of a mutation only with the fetched sequence stored
   and not empty. *)
C19_LoadBeforePatches ==
    /\ [](issued > 0 => (~loading /\ loadPc \in {"loaded", "failed", "threw"}))
    /\ [](\A c \in inflight :
            c.op \in Mutations => (loadPc = "loaded" /\ bookings # <<>>))
    /\ [][ /\ (loadPc # "loaded" /\ loadPc' = "loaded") =>
                 /\ bookings = <<>> /\ issued = 0 /\ inflight = {}
                 /\ toasts = NoToasts
           /\ loadPc \in {"loaded", "failed", "threw", "noPrincipal", "notAdmin"} =>
                 loadPc' = loadPc
           /\ (loadPc # "loaded" /\ loadPc' # "loaded") => bookings' = <<>>
         ]_vars

(* The fetched sequence was stored and then two patches were applied. *)
C19_Witness ==
    /\ loadPc = "loaded" /\ ~loading /\ Len(bookings) = 2
    /\ bookings[1].status = "rejected" /\ bookings[1].rejectionReason = ""
    /\ bookings[2].meetingLink = NewLink
    /\ toasts.success = 2 /\ issued = 2 /\ inflight = {}

(* C20: given that the effect runs and the fetch settles, loading, true at
   first, becomes false on every path of loadBookings, is false at each of
   its final positions and never becomes true again; when the fetch fails
   the store stays empty, and when it fails with an error, as the contract of
   the booking service has it, the one error notification is emitted. *)
C20_LoadingEnds ==
    /\ <>(~loading)
    /\ [](loadPc \in {"noPrincipal", "notAdmin", "loaded", "failed", "threw"}
             => ~loading)
    /\ [](loadPc \in {"failed", "threw"} => bookings = <<>>)
    /\ [](loadPc = "failed" => toasts.error >= 1)
    /\ [][ /\ ~loading => ~loading'
           /\ FetchFails =>
                 /\ bookings' = <<>> /\ ~loading'
                 /\ fetched.err \in Errors =>
                       /\ loadPc' = "failed"
                       /\ unhandled' = unhandled
                       /\ toasts' = [success |-> 0, error |-> 1,
                                     last |-> Toast("error",
                                         IF MessageAbsent(fetched.err)
                                         THEN "Failed to fetch bookings"
                                         ELSE fetched.err.message)]
         ]_vars

(* The fetch failed with no message and no redirect: the spinner is gone,
   the store is empty, the fallback was shown. *)
C20_Witness ==
    /\ loadPc = "failed" /\ ~loading /\ mounted /\ bookings = <<>>
    /\ toasts = [success |-> 0, error |-> 1,
                 last |-> Toast("error", "Failed to fetch bookings")]
    /\ unhandled = 0

=============================================================================
